---- MODULE Spec2Model ----
(***************************************************************************)
(* The reading assistant of this repository, part by part:                 *)
(*  - the highlight locator of src/components/PDFViewer.tsx (the "SMART    *)
(*    BBOX HIGHLIGHTING" effect and calculateHighlights) with the viewer   *)
(*    state that triggers it (Spec, SpecLocate);                           *)
(*  - the operations of the AI service, src/services/geminiService.ts and  *)
(*    src/unnamed/part_003 (SpecService);                                  *)
(*  - the proxy function src/api/proxy.js (SpecProxy);                     *)
(*  - the local database at the end of src/unnamed/part_002 (SpecStore);   *)
(*  - the reading session of App in src/unnamed/part_002: page changes,    *)
(*    the debounced page, captures and page translations (SpecApp), and    *)
(*    the citation overlay (SpecCitation).                                 *)
(* Each specification moves the variables of its part and leaves the       *)
(* others as they are initially.                                           *)
(*                                                                         *)
(* Text is a sequence of UTF-16 code units (numbers), so that the          *)
(* normalisation (filter + lower-casing) is computed, not assumed.         *)
(* Indices into normalised text are 0-based as in the source; the TLA+     *)
(* sequences holding the text are 1-based, hence the "+ 1" in places.      *)
(* Lengths of rectangles are kept in tenths of a CSS pixel: a fragment box *)
(* of base size b rendered at a scale of s tenths has size b * s.          *)
(***************************************************************************)
EXTENDS Integers, Sequences, FiniteSets, TLC

VARIABLES
  pageNumber,      \* prop pageNumber
  scale,           \* useState(1.2), in tenths
  highlightText,   \* prop highlightText; <<>> stands for null / ""
  textLayerReady,  \* useState(false)
  highlights,      \* useState<HighlightRect[]>([])
  timers,          \* pending setTimeout(calculateHighlights, 50) closures
  cleanup,         \* the timer the last run of the highlight effect returned a cleanup for
  getTextPending,  \* the renderer still owes an onGetTextSuccess for the current render
  dom,             \* what calculateHighlights reads from the document when it fires
  lastRun,         \* observation: the computation completed by the latest step, if any
  cancelled,       \* observation: the pending timers the latest step cleared
  memo             \* observation: the first computation completed since the document last changed

\* the state of the parts of the repository outside the viewer's highlight locator
VARIABLES
  svc,             \* one call of an operation of the AI service and its outcome
  proxy,           \* the proxy function api/proxy.js: the request in hand, its upstream calls, its response
  store,           \* the local database of summaries and page translations
  app,             \* the App component: pages, debounce, captures and translations
  cite             \* the App component: the citation overlay

viewer == <<pageNumber, scale, highlightText, textLayerReady, highlights,
            timers, cleanup, getTextPending, dom, lastRun, cancelled, memo>>

outside == <<svc, proxy, store, app, cite>>

vars == <<pageNumber, scale, highlightText, textLayerReady, highlights,
          timers, cleanup, getTextPending, dom, lastRun, cancelled, memo,
          svc, proxy, store, app, cite>>

----------------------------------------------------------------------------
(* Program constants *)

MIN_QUERY_LEN == 5
ANCHOR_CAP == 30
ANCHOR_MIN == 5
InitScale == 12
MinScale == 6
MaxScale == 25
ScaleStep == 1

(* Bounds of the model *)
MaxFrags == 4
NumPages == 2

NoText == <<>>
NoTimer == [none |-> TRUE]

\* a part of the repository that a specification leaves out stays as it is before its first event
Idle == [phase |-> "idle"]

OutsideIdle == svc = Idle /\ proxy = Idle /\ store = Idle /\ app = Idle /\ cite = Idle

----------------------------------------------------------------------------
(* Normalisation and the character index *)

\* a mutant of isAlphaNumeric: the range \u4e00-\u9fa5 is missing from the pattern
isAsciiAlphaNumeric(char) ==
  \/ char >= 97 /\ char <= 122
  \/ char >= 65 /\ char <= 90
  \/ char >= 48 /\ char <= 57

\* /[a-zA-Z0-9\u4e00-\u9fa5]/.test(char)
isAlphaNumeric(char) ==
  \/ char >= 97 /\ char <= 122
  \/ char >= 65 /\ char <= 90
  \/ char >= 48 /\ char <= 57
  \/ char >= 19968 /\ char <= 40869

toLowerCase(char) == IF char >= 65 /\ char <= 90 THEN char + 32 ELSE char

\* highlightText.split('').filter(isAlphaNumeric).join('').toLowerCase()
NormalizeQuery(str) ==
  LET kept == SelectSeq(str, isAlphaNumeric)
  IN [i \in 1..Len(kept) |-> toLowerCase(kept[i])]

\* the offsets i (0-based) of str with isAlphaNumeric(str[i]), in order
KeptOffsets(str) ==
  SelectSeq([i \in 1..Len(str) |-> i - 1], LAMBDA i : isAlphaNumeric(str[i + 1]))

\* a mutant of NodeChars: the page text is indexed without lower-casing it
NodeCharsCaseSensitive(str) ==
  LET offs == KeptOffsets(str) IN [k \in 1..Len(offs) |-> str[offs[k] + 1]]

\* the characters one text node adds to normalizedPdfText
NodeChars(str) ==
  LET offs == KeptOffsets(str) IN [k \in 1..Len(offs) |-> toLowerCase(str[offs[k] + 1])]

RECURSIVE BuildMapFrom(_, _)
BuildMapFrom(textNodes, n) ==
  IF n > Len(textNodes) THEN [text |-> <<>>, charMap |-> <<>>]
  ELSE LET str  == textNodes[n].text
           offs == KeptOffsets(str)
           rest == BuildMapFrom(textNodes, n + 1)
       IN [text    |-> NodeChars(str) \o rest.text,
           charMap |-> [k \in 1..Len(offs) |-> [node |-> n, index |-> offs[k]]] \o rest.charMap]

\* "1. Build Map": normalizedPdfText and charMap
BuildMap(textNodes) == BuildMapFrom(textNodes, 1)

----------------------------------------------------------------------------
(* Matching *)

RECURSIVE indexOfFrom(_, _, _)
indexOfFrom(str, searchString, k) ==
  IF k + Len(searchString) > Len(str) THEN -1
  ELSE IF SubSeq(str, k + 1, k + Len(searchString)) = searchString THEN k
  ELSE indexOfFrom(str, searchString, k + 1)

RECURSIVE lastIndexOfFrom(_, _, _)
lastIndexOfFrom(str, searchString, k) ==
  IF k < 0 THEN -1
  ELSE IF SubSeq(str, k + 1, k + Len(searchString)) = searchString THEN k
  ELSE lastIndexOfFrom(str, searchString, k - 1)

\* a mutant of indexOf: the last occurrence instead of the first
indexOfLast(str, searchString, position) ==
  LET k == lastIndexOfFrom(str, searchString, Len(str) - Len(searchString))
  IN IF k >= position THEN k ELSE -1

\* a mutant of indexOf: the position argument is ignored
indexOfIgnoringPosition(str, searchString, position) == indexOfFrom(str, searchString, 0)

\* String.prototype.indexOf(searchString, position)
indexOf(str, searchString, position) ==
  indexOfFrom(str, searchString, IF position < 0 THEN 0 ELSE position)

Min(a, b) == IF a < b THEN a ELSE b
Max(a, b) == IF a > b THEN a ELSE b

\* a mutant of AnchorLen: the anchor is half the query whatever its length
AnchorLenUncapped(normalizedQuery) == Len(normalizedQuery) \div 2

AnchorLen(normalizedQuery) == Min(ANCHOR_CAP, Len(normalizedQuery) \div 2)

\* a mutant of TailAccepted: the distance is measured from the end of the head match
TailAcceptedFromHeadEnd(headIndex, tailIndex, queryLength) ==
  /\ tailIndex # -1
  /\ 2 * (tailIndex - (headIndex + Min(ANCHOR_CAP, queryLength \div 2))) < 3 * queryLength

\* a mutant of TailAccepted: the distance check is dropped
TailAcceptedAnyDistance(headIndex, tailIndex, queryLength) ==
  tailIndex # -1

\* the acceptance test of the anchor fallback:
\* tailIndex !== -1 && (tailIndex - headIndex) < normalizedQuery.length * 1.5
TailAccepted(headIndex, tailIndex, queryLength) ==
  tailIndex # -1 /\ 2 * (tailIndex - headIndex) < 3 * queryLength

NoSpan == [startIndex |-> -1, endIndex |-> -1, kind |-> "none"]

\* "Fallback: Anchor Matching (Head & Tail)"
AnchorSpan(normalizedPdfText, normalizedQuery) ==
  LET ANCHOR_LEN == AnchorLen(normalizedQuery)
      L == Len(normalizedQuery)
  IN IF ANCHOR_LEN > ANCHOR_MIN
     THEN LET head == SubSeq(normalizedQuery, 1, ANCHOR_LEN)
              tail == SubSeq(normalizedQuery, L - ANCHOR_LEN + 1, L)
              headIndex == indexOf(normalizedPdfText, head, 0)
          IN IF headIndex # -1
             THEN LET searchStart == headIndex + ANCHOR_LEN
                      tailIndex == indexOf(normalizedPdfText, tail, searchStart)
                  IN IF TailAccepted(headIndex, tailIndex, L)
                     THEN [startIndex |-> headIndex,
                           endIndex   |-> tailIndex + Len(tail) - 1,
                           kind       |-> "anchor"]
                     ELSE NoSpan
             ELSE NoSpan
     ELSE NoSpan

\* a mutant of MatchSpan: the anchors are tried first, the exact match is the fallback
MatchSpanAnchorFirst(normalizedPdfText, normalizedQuery) ==
  LET startIndex == indexOf(normalizedPdfText, normalizedQuery, 0)
      anchored == AnchorSpan(normalizedPdfText, normalizedQuery)
  IN IF anchored.kind = "anchor" THEN anchored
     ELSE IF startIndex # -1
     THEN [startIndex |-> startIndex,
           endIndex   |-> startIndex + Len(normalizedQuery) - 1,
           kind       |-> "exact"]
     ELSE NoSpan

\* "3. Match Logic (Exact OR Anchor)"
MatchSpan(normalizedPdfText, normalizedQuery) ==
  LET startIndex == indexOf(normalizedPdfText, normalizedQuery, 0)
  IN IF startIndex # -1
     THEN [startIndex |-> startIndex,
           endIndex   |-> startIndex + Len(normalizedQuery) - 1,
           kind       |-> "exact"]
     ELSE AnchorSpan(normalizedPdfText, normalizedQuery)

----------------------------------------------------------------------------
(* Geometry: the range's client rectangles and their projection *)

\* the page element's client rectangle origin and base size, the fragments' indent and line pitch
Layout == [pageLeft |-> 30, pageTop |-> 20, pageW |-> 10, pageH |-> 10, indent |-> 1, line |-> 2]

\* pageElement?.getBoundingClientRect()
getBoundingClientRect(d) ==
  [left |-> Layout.pageLeft, top |-> Layout.pageTop,
   width |-> Layout.pageW * d.scale, height |-> Layout.pageH * d.scale]

\* the client rectangle of text node n of the rendered text layer
NodeRect(d, n) ==
  [left   |-> Layout.pageLeft + Layout.indent * d.scale,
   top    |-> Layout.pageTop + (n - 1) * Layout.line * d.scale,
   width  |-> d.textNodes[n].w * d.scale,
   height |-> d.textNodes[n].h * d.scale]

\* range.getClientRects() of the range set from startNodeData to endNodeData:
\* one rectangle per text node the range touches, in document order
getClientRects(d, startNodeData, endNodeData) ==
  [i \in 1..(endNodeData.node - startNodeData.node + 1) |-> NodeRect(d, startNodeData.node + i - 1)]

\* r.width < 1 || r.height < 1
Degenerate(r) == r.width < 10 \/ r.height < 10

\* a mutant of FullPage: the full-page filter is missing
FullPageNever(r, pageRect) == FALSE

\* r.width > pageRect.width * 0.9 && r.height > pageRect.height * 0.9
FullPage(r, pageRect) ==
  10 * r.width > 9 * pageRect.width /\ 10 * r.height > 9 * pageRect.height

\* a mutant of Relative: the rectangle keeps its viewport coordinates
RelativeToViewport(r, pageRect) == r

\* newHighlights.push({left: r.left - pageRect.left, ...})
Relative(r, pageRect) ==
  [left |-> r.left - pageRect.left, top |-> r.top - pageRect.top,
   width |-> r.width, height |-> r.height]

\* the loop over rects building newHighlights
Project(rects, pageRect) ==
  LET kept == SelectSeq(rects, LAMBDA r : ~Degenerate(r) /\ ~FullPage(r, pageRect))
  IN [i \in 1..Len(kept) |-> Relative(kept[i], pageRect)]

----------------------------------------------------------------------------
(* calculateHighlights *)

\* a mutant of CatchHandler: the catch block logs and leaves the list alone
CatchHandlerKeeps(prevHighlights) == prevHighlights

\* catch (e) { console.error(...); setHighlights([]); }
CatchHandler(prevHighlights) == <<>>

\* an exit that returns without calling setHighlights
Return(prevHighlights, exit) ==
  [highlights |-> prevHighlights, exit |-> exit, kind |-> "none",
   startIndex |-> -1, endIndex |-> -1, rects |-> <<>>, scrolledTo |-> 0,
   normalizedPdfText |-> <<>>, charMap |-> <<>>, normalizedQuery |-> <<>>]

\* a mutant of ScrollTarget: the scroll is issued whether or not a rectangle survived
ScrollTargetAlways(newHighlights, startNodeData) == startNodeData.node

\* if (newHighlights.length > 0) startNodeData.node.parentElement?.scrollIntoView(...):
\* the text node whose parent element is scrolled into view, 0 when no scroll is issued
ScrollTarget(newHighlights, startNodeData) ==
  IF Len(newHighlights) > 0 THEN startNodeData.node ELSE 0

\* the body of the try block, once the span is known
ProjectSpan(d, charMap, span, prevHighlights) ==
  LET startNodeData == charMap[span.startIndex + 1]
      endNodeData   == charMap[span.endIndex + 1]
  IN IF d.rangeThrows
     THEN [Return(CatchHandler(prevHighlights), "caught") EXCEPT
             !.kind = span.kind, !.startIndex = span.startIndex, !.endIndex = span.endIndex]
     ELSE IF ~d.pageElement
     THEN [Return(prevHighlights, "noPageRect") EXCEPT
             !.kind = span.kind, !.startIndex = span.startIndex, !.endIndex = span.endIndex]
     ELSE LET rects == getClientRects(d, startNodeData, endNodeData)
              newHighlights == Project(rects, getBoundingClientRect(d))
          IN [Return(newHighlights, "done") EXCEPT
                !.kind = span.kind, !.startIndex = span.startIndex, !.endIndex = span.endIndex,
                !.rects = rects, !.scrolledTo = ScrollTarget(newHighlights, startNodeData)]

\* the part of calculateHighlights that follows the construction of the character index
Locate(m, normalizedQuery, d, prevHighlights) ==
  IF Len(normalizedQuery) < MIN_QUERY_LEN THEN Return(prevHighlights, "shortQuery")
  ELSE LET span == MatchSpan(m.text, normalizedQuery)
       IN IF span.startIndex = -1 \/ span.endIndex = -1
          THEN [Return(<<>>, "noMatch") EXCEPT !.kind = span.kind]
          ELSE IF span.startIndex + 1 > Len(m.charMap) \/ span.endIndex + 1 > Len(m.charMap)
          THEN Return(prevHighlights, "noCharMap")
          ELSE ProjectSpan(d, m.charMap, span, prevHighlights)

\* calculateHighlights, for the highlightText its closure captured, the document d it reads
\* and the highlight list on display when it runs; the result also records the locals
\* normalizedPdfText, charMap and normalizedQuery the run computed
calculateHighlights(text, d, prevHighlights) ==
  IF ~d.textLayer THEN Return(prevHighlights, "noTextLayer")
  ELSE IF Len(d.textNodes) = 0 THEN Return(prevHighlights, "noTextNodes")
  ELSE LET m == BuildMap(d.textNodes)
           normalizedQuery == NormalizeQuery(text)
       IN [Locate(m, normalizedQuery, d, prevHighlights) EXCEPT
             !.normalizedPdfText = m.text, !.charMap = m.charMap,
             !.normalizedQuery = normalizedQuery]

----------------------------------------------------------------------------
(* The inputs: text fragments, pages and queries *)

\* text fragments, each with the base size of the box the renderer gives it
FragHead  == [text |-> <<65, 98, 45, 99, 100, 32, 69, 102>>, w |-> 4, h |-> 2]   \* "Ab-cd Ef"
FragTail  == [text |-> <<117, 118, 119, 120, 121, 122>>, w |-> 4, h |-> 1]       \* "uvwxyz"
FragDigit == [text |-> <<49, 50, 51, 52, 53, 54, 55, 56>>, w |-> 9, h |-> 9]     \* "12345678", 90% of the page
FragCjk   == [text |-> <<20013, 55, 32, 113>>, w |-> 0, h |-> 2]                 \* "中7 q", zero width
FragPunct == [text |-> <<32, 45, 32>>, w |-> 10, h |-> 10]                       \* " - ", as large as the page

FragPool == {FragHead, FragTail, FragDigit, FragCjk, FragPunct}

\* "The quick brown fox jumps over the lazy dog" in four fragments
ExamplePage ==
  << [text |-> <<84, 104, 101, 32, 113, 117, 105, 99, 107, 32>>, w |-> 4, h |-> 2],
     [text |-> <<98, 114, 111, 119, 110, 32, 102, 111, 120>>, w |-> 4, h |-> 2],
     [text |-> <<32, 106, 117, 109, 112, 115, 32, 111, 118, 101, 114>>, w |-> 4, h |-> 2],
     [text |-> <<32, 116, 104, 101, 32, 108, 97, 122, 121, 32, 100, 111, 103>>, w |-> 4, h |-> 2] >>

\* "The quick brown fox jumps over the lazy dog " and "sphinx of black quartz judge my vow": 64 characters once normalized
LongPage ==
  << [text |-> <<84, 104, 101, 32, 113, 117, 105, 99, 107, 32, 98, 114, 111, 119, 110, 32, 102, 111, 120, 32, 106, 117, 109, 112, 115, 32, 111, 118, 101, 114, 32, 116, 104, 101, 32, 108, 97, 122, 121, 32, 100, 111, 103, 32>>,
      w |-> 4, h |-> 2],
     [text |-> <<115, 112, 104, 105, 110, 120, 32, 111, 102, 32, 98, 108, 97, 99, 107, 32, 113, 117, 97, 114, 116, 122, 32, 106, 117, 100, 103, 101, 32, 109, 121, 32, 118, 111, 119>>,
      w |-> 4, h |-> 2] >>

\* the characters next to the ends of the ranges of isAlphaNumeric:
\* "@AZ[`az{", "/09:", U+4DFF U+4E00 U+9FA5 U+9FA6 and U+00E9
BoundaryPage ==
  << [text |-> <<64, 65, 90, 91, 96, 97, 122, 123>>, w |-> 4, h |-> 2],
     [text |-> <<47, 48, 57, 58>>, w |-> 4, h |-> 2],
     [text |-> <<19967, 19968, 40869, 40870, 233>>, w |-> 4, h |-> 2] >>

\* the text nodes a rendered page can hold
Pages == UNION {[1..n -> FragPool] : n \in 1..MaxFrags} \cup {ExamplePage, LongPage, BoundaryPage}

QueryHeadTail == <<97, 98, 99, 100, 101, 102, 32, 117, 118, 119, 120, 121, 122>>          \* "abcdef uvwxyz"
QueryAltered  == <<65, 66, 67, 68, 69, 70, 45, 113, 45, 85, 86, 87, 88, 89, 90>>          \* "ABCDEF-q-UVWXYZ"
QueryMixed    == <<68, 69, 70, 20013, 55>>                                                \* "DEF中7"
QueryCjk      == <<20013, 55, 113, 20013, 55>>                                            \* "中7q中7"
QueryShrinks  == <<97, 45, 98, 45, 99, 45, 100>>                                          \* "a-b-c-d"
QueryRawShort == <<117, 118, 119, 120>>                                                   \* "uvwx"
QueryAbsent   == <<122, 122, 122, 122, 122>>                                              \* "zzzzz"
QueryExample  == <<98, 114, 111, 119, 110, 32, 102, 111, 120, 32, 106, 117, 109, 112, 115>> \* "brown fox jumps"

QueryTailOnly == <<117, 118, 119, 120, 121, 122>>                                         \* "uvwxyz"
\* "[az]{AZ}:09/", U+9FA6 U+4E00 U+00E9 U+9FA5 U+4DFF
QueryBoundary == <<91, 97, 122, 93, 123, 65, 90, 125, 58, 48, 57, 47, 40870, 19968, 233, 40869, 19967>>
QueryEleven   == <<97, 98, 99, 100, 101, 45, 57, 45, 118, 119, 120, 121, 122>>                           \* "abcde-9-vwxyz"
\* "The quick brown fox jumps over the la-XX-g sphinx of black quartz judge my vow": 62 characters once normalized
QueryLong ==
  <<84, 104, 101, 32, 113, 117, 105, 99, 107, 32, 98, 114, 111, 119, 110, 32, 102, 111, 120, 32, 106, 117, 109, 112, 115, 32, 111, 118, 101, 114, 32, 116, 104, 101, 32, 108, 97, 45, 88, 88, 45, 103, 32, 115, 112, 104, 105, 110, 120, 32, 111, 102, 32, 98, 108, 97, 99, 107, 32, 113, 117, 97, 114, 116, 122, 32, 106, 117, 100, 103, 101, 32, 109, 121, 32, 118, 111, 119>>

\* the values of the highlightText prop
Queries == {QueryHeadTail, QueryAltered, QueryMixed, QueryCjk, QueryShrinks,
            QueryRawShort, QueryAbsent, QueryExample, QueryEleven, QueryLong, QueryTailOnly,
            QueryBoundary}

\* the queries the viewer is driven with page after page
HoverQueries == {NoText, QueryHeadTail, QueryShrinks, QueryRawShort, QueryAbsent, QueryTailOnly}

\* the text nodes of page p of the loaded document
DocPage(p) ==
  IF p % 2 = 1 THEN <<FragHead, FragPunct, FragTail>>
  ELSE <<FragHead, FragDigit, FragCjk, FragTail>>

----------------------------------------------------------------------------
(* The component: its state, its effects *)

View ==
  [pageNumber |-> pageNumber, scale |-> scale, highlightText |-> highlightText,
   textLayerReady |-> textLayerReady, highlights |-> highlights,
   timers |-> timers, cleanup |-> cleanup]

Install(s) ==
  /\ pageNumber' = s.pageNumber
  /\ scale' = s.scale
  /\ highlightText' = s.highlightText
  /\ textLayerReady' = s.textLayerReady
  /\ highlights' = s.highlights
  /\ timers' = s.timers
  /\ cleanup' = s.cleanup

\* a mutant of clearTimeout: the effect returns no cleanup
clearTimeoutForgotten(pending, timer) == pending

\* return () => clearTimeout(timer), run before the effect runs again
clearTimeout(pending, timer) == pending \ {timer}

\* a mutant of BasicGuard: the length of highlightText is not looked at
BasicGuardNoLength(s) == s.highlightText = NoText \/ ~s.textLayerReady

\* the "Basic Guard" of the highlight effect
BasicGuard(s) == s.highlightText = NoText \/ Len(s.highlightText) < MIN_QUERY_LEN \/ ~s.textLayerReady

\* one run of the highlight effect for the render s: the previous run's cleanup, then its body
HighlightEffect(s) ==
  LET cleared == [s EXCEPT !.timers = clearTimeout(s.timers, s.cleanup), !.cleanup = NoTimer]
      timer == [query |-> s.highlightText, page |-> s.pageNumber, scale |-> s.scale]
  IN IF BasicGuard(s)
     THEN [cleared EXCEPT !.highlights = <<>>]
     ELSE [cleared EXCEPT !.timers = @ \cup {timer}, !.cleanup = timer]

\* a mutant of CommitPageOrScale: the reset effect is missing
CommitWithoutReset(s) == HighlightEffect(s)

\* the commit of a render in which pageNumber or scale changed: the reset effect queues its two
\* updates, the highlight effect runs with the values of this render, and the queued updates
\* render again, which runs the highlight effect once more when textLayerReady changed
CommitPageOrScale(s) ==
  LET first == HighlightEffect(s)
      reset == [first EXCEPT !.textLayerReady = FALSE, !.highlights = <<>>]
  IN IF s.textLayerReady THEN HighlightEffect(reset) ELSE reset

----------------------------------------------------------------------------
(* Observations *)

NoRun == [ran |-> FALSE]
NoMemo == [set |-> FALSE]

Unrendered(sc) ==
  [textLayer |-> FALSE, textNodes |-> <<>>, pageElement |-> TRUE, rangeThrows |-> FALSE, scale |-> sc]

Rendered(nodes, sc) ==
  [textLayer |-> TRUE, textNodes |-> nodes, pageElement |-> TRUE, rangeThrows |-> FALSE, scale |-> sc]

----------------------------------------------------------------------------
(* Actions *)

\* the parent changes the highlightText prop (a block is hovered or left)
SetHighlightText(q) ==
  /\ q # highlightText
  /\ Install(HighlightEffect([View EXCEPT !.highlightText = q]))
  /\ cancelled' = timers \ timers'
  /\ lastRun' = NoRun
  /\ UNCHANGED <<getTextPending, dom, memo>>
  /\ UNCHANGED outside

\* the renderer drops the text layer of the old page or scale and owes a new one
Rerender(sc) ==
  /\ dom' = Unrendered(sc)
  /\ getTextPending' = TRUE
  /\ memo' = NoMemo

\* onPageChange(pageNumber - 1) / onPageChange(pageNumber + 1) of the two page buttons
PageChange(p) ==
  /\ p >= 1 /\ p <= NumPages
  /\ p # pageNumber
  /\ Install(CommitPageOrScale([View EXCEPT !.pageNumber = p]))
  /\ Rerender(scale)
  /\ cancelled' = timers \ timers'
  /\ lastRun' = NoRun
  /\ UNCHANGED outside

PrevPage == pageNumber > 1 /\ PageChange(pageNumber - 1)
NextPage == pageNumber < NumPages /\ PageChange(pageNumber + 1)

\* a mutant of ClampScale: the upper limit is not applied
ClampScaleBelowOnly(prevScale, delta) == Max(MinScale, prevScale + delta)

\* changeScale(delta): setScale(prev => Math.min(Math.max(0.6, prev + delta), 2.5))
ClampScale(prevScale, delta) == Min(Max(MinScale, prevScale + delta), MaxScale)

ChangeScale(delta) ==
  LET next == ClampScale(scale, delta)
  IN IF next = scale
     THEN UNCHANGED vars
     ELSE /\ Install(CommitPageOrScale([View EXCEPT !.scale = next]))
          /\ Rerender(next)
          /\ cancelled' = timers \ timers'
          /\ lastRun' = NoRun
          /\ UNCHANGED outside

ZoomIn == ChangeScale(ScaleStep)
ZoomOut == ChangeScale(-ScaleStep)

\* onGetTextSuccess={() => setTextLayerReady(true)}
OnGetTextSuccess ==
  /\ getTextPending
  /\ getTextPending' = FALSE
  /\ IF textLayerReady
     THEN UNCHANGED <<pageNumber, scale, highlightText, textLayerReady, highlights, timers, cleanup>>
     ELSE Install(HighlightEffect([View EXCEPT !.textLayerReady = TRUE]))
  /\ cancelled' = timers \ timers'
  /\ lastRun' = NoRun
  /\ UNCHANGED <<dom, memo>>
  /\ UNCHANGED outside

\* the renderer puts the text layer of the current page into the document
TextLayerRendered ==
  /\ ~dom.textLayer
  /\ dom' = Rendered(DocPage(pageNumber), scale)
  /\ memo' = NoMemo
  /\ lastRun' = NoRun
  /\ cancelled' = {}
  /\ UNCHANGED <<pageNumber, scale, highlightText, textLayerReady, highlights, timers, cleanup,
                 getTextPending>>
  /\ UNCHANGED outside

\* a fault of the document: the Range calls of the next computation throw
DomDetach ==
  /\ dom.textLayer
  /\ ~dom.rangeThrows
  /\ dom' = [dom EXCEPT !.rangeThrows = TRUE]
  /\ memo' = NoMemo
  /\ lastRun' = NoRun
  /\ cancelled' = {}
  /\ UNCHANGED <<pageNumber, scale, highlightText, textLayerReady, highlights, timers, cleanup,
                 getTextPending>>
  /\ UNCHANGED outside

\* a pending timer fires: calculateHighlights runs to completion
TimerFire ==
  \E timer \in timers :
    LET r == calculateHighlights(timer.query, dom, highlights)
    IN /\ timers' = timers \ {timer}
       /\ highlights' = r.highlights
       /\ lastRun' = [ran |-> TRUE, timer |-> timer, before |-> highlights, exit |-> r.exit,
                      kind |-> r.kind, startIndex |-> r.startIndex, endIndex |-> r.endIndex,
                      rects |-> r.rects, scrolledTo |-> r.scrolledTo,
                      normalizedPdfText |-> r.normalizedPdfText, charMap |-> r.charMap,
                      normalizedQuery |-> r.normalizedQuery]
       /\ cancelled' = {}
       /\ memo' = IF memo.set THEN memo
                  ELSE [set |-> TRUE, query |-> timer.query, result |-> r.highlights]
       /\ UNCHANGED <<pageNumber, scale, highlightText, textLayerReady, cleanup,
                      getTextPending, dom>>
       /\ UNCHANGED outside

----------------------------------------------------------------------------
(* The viewer, driven page after page *)

ViewerInit ==
  /\ pageNumber = 1
  /\ scale = InitScale
  /\ highlightText = NoText
  /\ textLayerReady = FALSE
  /\ highlights = <<>>
  /\ timers = {}
  /\ cleanup = NoTimer
  /\ getTextPending = TRUE
  /\ dom = Unrendered(InitScale)
  /\ lastRun = NoRun
  /\ cancelled = {}
  /\ memo = NoMemo

Init == ViewerInit /\ OutsideIdle

Next ==
  \/ \E q \in HoverQueries : SetHighlightText(q)
  \/ PrevPage
  \/ NextPage
  \/ ZoomIn
  \/ ZoomOut
  \/ OnGetTextSuccess
  \/ TextLayerRendered
  \/ DomDetach
  \/ TimerFire

Spec == Init /\ [][Next]_vars

----------------------------------------------------------------------------
(* One computation on any page of Pages for any query of Queries *)

\* the list a match of the page's first text node leaves on display
StaleLists(nodes) ==
  {<<>>, calculateHighlights(nodes[1].text, Rendered(nodes, InitScale), <<>>).highlights}

\* the viewer showing a rendered page whose text layer is ready, just after highlightText changed
\* to q while the list of an earlier query was on display
InitLocate ==
  \E nodes \in Pages, q \in Queries :
    \E stale \in StaleLists(nodes) :
      LET s == HighlightEffect([pageNumber |-> 1, scale |-> InitScale, highlightText |-> q,
                                textLayerReady |-> TRUE, highlights |-> stale,
                                timers |-> {}, cleanup |-> NoTimer])
      IN /\ pageNumber = s.pageNumber
         /\ scale = s.scale
         /\ highlightText = s.highlightText
         /\ textLayerReady = s.textLayerReady
         /\ highlights = s.highlights
         /\ timers = s.timers
         /\ cleanup = s.cleanup
         /\ getTextPending = FALSE
         /\ dom = Rendered(nodes, InitScale)
         /\ lastRun = NoRun
         /\ cancelled = {}
         /\ memo = NoMemo
         /\ OutsideIdle

NextLocate == TimerFire

SpecLocate == InitLocate /\ [][NextLocate]_vars

----------------------------------------------------------------------------
(* What the claims speak of, stated without the matcher's own operators *)

RECURSIVE RawText(_, _)
\* the page text: the text nodes' contents one after the other
RawText(nodes, n) == IF n > Len(nodes) THEN <<>> ELSE nodes[n].text \o RawText(nodes, n + 1)

\* normalized(P) of the page on display
PageText == NormalizeQuery(RawText(dom.textNodes, 1))

\* the normalized query of the computation that just ran
RunQuery == NormalizeQuery(lastRun.timer.query)

\* the 0-based positions at which pat occurs in text
Occurrences(text, pat) ==
  {i \in 0..(Len(text) - Len(pat)) : SubSeq(text, i + 1, i + Len(pat)) = pat}

Least(S) == CHOOSE x \in S : \A y \in S : x <= y

RunAnchorLen == Min(30, Len(RunQuery) \div 2)
RunHead == SubSeq(RunQuery, 1, RunAnchorLen)
RunTail == SubSeq(RunQuery, Len(RunQuery) - RunAnchorLen + 1, Len(RunQuery))

\* the computation that just ran got as far as matching
Matched == lastRun.ran /\ dom.textLayer /\ Len(dom.textNodes) > 0 /\ Len(RunQuery) >= 5

\* a rectangle of at least 1 x 1 pixel that does not reach 90% of both page dimensions
Renderable(r) ==
  /\ r.width >= 10 /\ r.height >= 10
  /\ ~(10 * r.width >= 9 * Layout.pageW * dom.scale /\ 10 * r.height >= 9 * Layout.pageH * dom.scale)

\* every character of the run [from, to] of the page text lies in a text node with a renderable box
RunRenderable(from, to) ==
  LET charMap == BuildMap(dom.textNodes).charMap
  IN \A k \in from..to : Renderable(NodeRect(dom, charMap[k + 1].node))

----------------------------------------------------------------------------
(* C1: a query of normalized length >= 5 that is a contiguous substring of the normalized page
   text is matched exactly and yields at least one rectangle, when the text nodes of the matched
   run have renderable boxes and the Range calls do not throw. *)
C1_SubstringIsHighlighted ==
  (/\ Matched
   /\ Occurrences(PageText, RunQuery) # {}
   /\ ~dom.rangeThrows
   /\ LET s == Least(Occurrences(PageText, RunQuery))
      IN RunRenderable(s, s + Len(RunQuery) - 1))
  => (lastRun.exit = "done" /\ lastRun.kind = "exact" /\ Len(highlights) >= 1)

\* an upper-case page fragment matched by a lower-case query across three text nodes
C1_Witness ==
  /\ Matched
  /\ lastRun.timer.query = QueryHeadTail
  /\ Occurrences(PageText, RunQuery) # {}
  /\ LET s == Least(Occurrences(PageText, RunQuery))
     IN RunRenderable(s, s + Len(RunQuery) - 1)
  /\ Len(dom.textNodes) >= 3
  /\ lastRun.before # <<>>
  /\ Len(highlights) >= 2

----------------------------------------------------------------------------
(* C2: a query whose normalized form has fewer than 5 characters produces no match and an empty
   rectangle list, whatever the page text, also when the raw query has 5 or more characters. *)
C2_ShortQueryYieldsEmptyList ==
  (lastRun.ran /\ Len(RunQuery) < 5) => (lastRun.kind = "none" /\ highlights = <<>>)

----------------------------------------------------------------------------
(* C3: when the query is no exact substring, its anchor length A exceeds 5, and its first A and
   last A characters occur in the page text, the tail after the head and the whole span within
   1.5 * L characters, the computation returns a match that starts at an occurrence of the head
   anchor and ends at the last character of an occurrence of the tail anchor, on every page,
   also where the head anchor occurs more than once. *)
C3_AnchorsWithinDistanceMatch ==
  (/\ Matched
   /\ Occurrences(PageText, RunQuery) = {}
   /\ RunAnchorLen > 5
   /\ \E h \in Occurrences(PageText, RunHead), t \in Occurrences(PageText, RunTail) :
        /\ t >= h + RunAnchorLen
        /\ 2 * (t + RunAnchorLen - 1 - h) <= 3 * Len(RunQuery))
  => (/\ lastRun.kind = "anchor"
      /\ lastRun.startIndex \in Occurrences(PageText, RunHead)
      /\ lastRun.endIndex - RunAnchorLen + 1 \in Occurrences(PageText, RunTail))

----------------------------------------------------------------------------
(* C4: when the exact match fails and the tail anchor does not occur after the first occurrence
   of the head anchor, or occurs there only more than 1.5 * L characters after the head anchor's
   start, the list is empty. *)
C4_AnchorRejection ==
  (/\ Matched
   /\ Occurrences(PageText, RunQuery) = {}
   /\ RunAnchorLen > 5
   /\ Occurrences(PageText, RunHead) # {}
   /\ LET h == Least(Occurrences(PageText, RunHead))
      IN \A t \in Occurrences(PageText, RunTail) :
           t >= h + RunAnchorLen => 2 * (t - h) > 3 * Len(RunQuery))
  => (lastRun.exit = "noMatch" /\ highlights = <<>>)

\* the tail anchor occurs after the head anchor, too far away, and a list on display is cleared
C4_Witness ==
  /\ Matched
  /\ Occurrences(PageText, RunQuery) = {}
  /\ RunAnchorLen > 5
  /\ Occurrences(PageText, RunHead) # {}
  /\ LET h == Least(Occurrences(PageText, RunHead))
     IN /\ \E t \in Occurrences(PageText, RunTail) : t >= h + RunAnchorLen
        /\ \A t \in Occurrences(PageText, RunTail) :
             t >= h + RunAnchorLen => 2 * (t - h) > 3 * Len(RunQuery)
  /\ lastRun.before # <<>>
  /\ lastRun.exit = "noMatch"
  /\ highlights = <<>>

----------------------------------------------------------------------------
(* C5, as claimed: in every span the anchor fallback accepts, the distance from the head match
   start to the END of the tail match is at most 1.5 * L. *)
C5_TailEndWithinDistance ==
  (lastRun.ran /\ lastRun.kind = "anchor")
  => 2 * (lastRun.endIndex - lastRun.startIndex) <= 3 * Len(RunQuery)

(* C5, amended: in every span the anchor fallback accepts, the distance from the head match
   start to the START of the tail match is less than 1.5 * L, and the tail match starts at or
   after the end of the head match. *)
C5_TailStartWithinDistance ==
  (lastRun.ran /\ lastRun.kind = "anchor")
  => LET tailIndex == lastRun.endIndex - RunAnchorLen + 1
     IN /\ 2 * (tailIndex - lastRun.startIndex) < 3 * Len(RunQuery)
        /\ tailIndex >= lastRun.startIndex + RunAnchorLen
        /\ SubSeq(PageText, tailIndex + 1, tailIndex + RunAnchorLen) = RunTail
        /\ SubSeq(PageText, lastRun.startIndex + 1, lastRun.startIndex + RunAnchorLen) = RunHead

\* an accepted span whose tail ends beyond 1.5 * L
C5_Witness ==
  /\ lastRun.ran
  /\ lastRun.kind = "anchor"
  /\ lastRun.exit = "done"
  /\ 2 * (lastRun.endIndex - lastRun.startIndex) > 3 * Len(RunQuery)

----------------------------------------------------------------------------
(* C6, as claimed: no rectangle of the list a computation produced has a width of 90% or more of the page width and a
   height of 90% or more of the page height. *)
C6_NoRectAtOrAbove90Percent ==
  (lastRun.ran /\ lastRun.exit = "done") => \A i \in DOMAIN highlights :
    ~(/\ 10 * highlights[i].width >= 9 * Layout.pageW * dom.scale
      /\ 10 * highlights[i].height >= 9 * Layout.pageH * dom.scale)

(* C6, amended: no rectangle of the list a computation produced has a width of more than 90% of the page width and a
   height of more than 90% of the page height; one of exactly 90% of both is kept. *)
C6_NoRectAbove90Percent ==
  (lastRun.ran /\ lastRun.exit = "done") => \A i \in DOMAIN highlights :
    ~(/\ 10 * highlights[i].width > 9 * Layout.pageW * dom.scale
      /\ 10 * highlights[i].height > 9 * Layout.pageH * dom.scale)

\* a matched span whose range holds a page-sized rectangle, left out of a non-empty list
C6_Witness ==
  /\ lastRun.ran
  /\ lastRun.exit = "done"
  /\ \E i \in DOMAIN lastRun.rects :
       /\ 10 * lastRun.rects[i].width > 9 * Layout.pageW * dom.scale
       /\ 10 * lastRun.rects[i].height > 9 * Layout.pageH * dom.scale
  /\ Len(highlights) >= 1
  /\ Len(highlights) < Len(lastRun.rects)

----------------------------------------------------------------------------
(* C7: when the normalized query occurs in the normalized page text, the span is
   [s, s + L - 1] for the FIRST occurrence s; "brownfoxjumps" in
   "thequickbrownfoxjumpsoverthelazydog" gives 8..20. *)
C7_ExactSpanIsFirstOccurrence ==
  /\ (Matched /\ Occurrences(PageText, RunQuery) # {})
     => /\ lastRun.kind = "exact"
        /\ lastRun.startIndex = Least(Occurrences(PageText, RunQuery))
        /\ lastRun.endIndex = lastRun.startIndex + Len(RunQuery) - 1
  /\ (lastRun.ran /\ dom.textNodes = ExamplePage /\ lastRun.timer.query = QueryExample)
     => (lastRun.startIndex = 8 /\ lastRun.endIndex = 20)

\* a query that occurs twice in the page text
C7_Witness ==
  /\ Matched
  /\ Cardinality(Occurrences(PageText, RunQuery)) >= 2
  /\ lastRun.kind = "exact"
  /\ lastRun.exit = "done"

----------------------------------------------------------------------------
(* C8: two computations with the same text nodes, scale and query, and no change of the
   document between them, leave the same rectangle list. *)
C8_SameInputsSameList ==
  (lastRun.ran /\ memo.set /\ memo.query = lastRun.timer.query) => highlights = memo.result

----------------------------------------------------------------------------
(* C9: when a Range call throws, the exception is caught in the computation: the list is set to
   empty and nothing is scrolled into view. *)
C9_ThrowIsCaughtAndClears ==
  (lastRun.ran /\ dom.rangeThrows /\ lastRun.startIndex # -1)
  => (lastRun.exit = "caught" /\ highlights = <<>> /\ lastRun.scrolledTo = 0)

\* a throwing computation that cleared a list on display
C9_Witness ==
  /\ lastRun.ran
  /\ dom.rangeThrows
  /\ lastRun.exit = "caught"
  /\ lastRun.before # <<>>
  /\ highlights = <<>>

----------------------------------------------------------------------------
(* C10: at most one computation is pending; a change of page number, scale, query or
   text-layer-ready flag cancels the pending computation, which then never runs; a computation
   that is pending or runs was scheduled for the current page, scale and query. *)
Triggered ==
  \/ pageNumber' # pageNumber
  \/ scale' # scale
  \/ highlightText' # highlightText
  \/ textLayerReady' # textLayerReady

C10_CancelAndSupersede ==
  /\ [](/\ Cardinality(timers) <= 1
        /\ \A t \in timers :
             /\ t.query = highlightText /\ t.page = pageNumber /\ t.scale = scale
             /\ textLayerReady)
  /\ [][/\ Triggered => (timers \cap timers' = {} /\ cancelled' = timers)
        /\ lastRun'.ran => /\ lastRun'.timer \in timers
                           /\ lastRun'.timer.query = highlightText
                           /\ lastRun'.timer.page = pageNumber
                           /\ lastRun'.timer.scale = scale]_vars

\* a pending computation was cancelled and another one scheduled in its place
C10_Witness ==
  /\ cancelled # {}
  /\ timers # {}
  /\ timers \cap cancelled = {}

----------------------------------------------------------------------------
(* C11: a step that changes the page number or the scale leaves the highlight list empty,
   textLayerReady false and no computation pending; the list becomes non-empty only by a
   computation that runs while the text layer is ready and was scheduled for the current page and
   scale; textLayerReady becomes true only by a text-layer-ready signal; so every rectangle on
   display is a box of the current page's text layer at the current scale. *)
PageOrScaleChanged == pageNumber' # pageNumber \/ scale' # scale

C11_PageOrScaleChangeClears ==
  /\ [](highlights # <<>> =>
          /\ textLayerReady
          /\ dom.textLayer /\ dom.scale = scale /\ dom.textNodes = DocPage(pageNumber)
          /\ \A i \in 1..Len(highlights) :
               \E n \in 1..Len(dom.textNodes) :
                 highlights[i] = Relative(NodeRect(dom, n), getBoundingClientRect(dom)))
  /\ [][/\ PageOrScaleChanged => (highlights' = <<>> /\ ~textLayerReady' /\ timers' = {})
        /\ (highlights' # <<>> /\ highlights' # highlights) =>
             /\ lastRun'.ran
             /\ textLayerReady /\ textLayerReady'
             /\ lastRun'.timer.page = pageNumber /\ lastRun'.timer.scale = scale
        /\ (~textLayerReady /\ textLayerReady') => (getTextPending /\ ~getTextPending')]_vars

\* highlights on display again on another page at another scale than the first
C11_Witness ==
  /\ pageNumber = 2
  /\ scale # InitScale
  /\ lastRun.ran
  /\ highlights # <<>>

----------------------------------------------------------------------------
(* The character classes the claims name, by code unit *)
Capitals == 65..90
Smalls == 97..122
Digits == 48..57
Ideographs == 19968..40869
Kept(c) == c \in Capitals \/ c \in Smalls \/ c \in Digits \/ c \in Ideographs
LowerCase(c) == IF c \in Capitals THEN c + 32 ELSE c

\* the computation that just ran built its character index
IndexBuilt == lastRun.ran /\ dom.textLayer /\ Len(dom.textNodes) > 0

\* the character of the page that entry e of the index points at
CharAt(e) == dom.textNodes[e.node].text[e.index + 1]

\* the (text node, offset) positions of the page that hold a kept character
KeptPositions ==
  UNION {{<<n, i>> : i \in {j \in 0..(Len(dom.textNodes[n].text) - 1) : Kept(dom.textNodes[n].text[j + 1])}} :
           n \in 1..Len(dom.textNodes)}

(* C12: once the index is built it has one entry per character of the normalized page text and
   one per kept character of the page; entry k names a text node of the page and an offset inside
   that node's text, the character there is kept and its lower-case form is character k of the
   normalized text; the entries strictly increase in (text node order, offset). *)
C12_CharacterIndex ==
  IndexBuilt =>
    LET text == lastRun.normalizedPdfText
        charMap == lastRun.charMap
    IN /\ Len(charMap) = Len(text)
       /\ Len(charMap) = Cardinality(KeptPositions)
       /\ \A k \in 1..Len(charMap) :
            /\ charMap[k].node \in 1..Len(dom.textNodes)
            /\ charMap[k].index \in 0..(Len(dom.textNodes[charMap[k].node].text) - 1)
            /\ Kept(CharAt(charMap[k]))
            /\ LowerCase(CharAt(charMap[k])) = text[k]
       /\ \A k \in 1..(Len(charMap) - 1) :
            \/ charMap[k].node < charMap[k + 1].node
            \/ charMap[k].node = charMap[k + 1].node /\ charMap[k].index < charMap[k + 1].index

\* an index over several text nodes, one of which contributes nothing, with an upper-case
\* character and an offset that skips dropped characters
C12_Witness ==
  /\ IndexBuilt
  /\ Len(lastRun.charMap) >= 10
  /\ \E k \in 1..(Len(lastRun.charMap) - 1) : lastRun.charMap[k + 1].node > lastRun.charMap[k].node + 1
  /\ \E k \in 1..Len(lastRun.charMap) : CharAt(lastRun.charMap[k]) # lastRun.normalizedPdfText[k]
  /\ \E k \in 1..(Len(lastRun.charMap) - 1) :
       /\ lastRun.charMap[k + 1].node = lastRun.charMap[k].node
       /\ lastRun.charMap[k + 1].index > lastRun.charMap[k].index + 1

----------------------------------------------------------------------------
(* C13: while highlightText is null or empty or has fewer than 5 characters, or the text layer is
   not ready, the highlight list is empty, no computation is pending and none has just run (so
   none can have raised an error); in particular textLayerReady = FALSE implies an empty list. *)
GuardFails == highlightText = NoText \/ Len(highlightText) < 5 \/ ~textLayerReady

C13_GuardKeepsListEmpty ==
  /\ GuardFails => (highlights = <<>> /\ timers = {} /\ ~lastRun.ran)
  /\ ~textLayerReady => highlights = <<>>

\* a 4-character highlightText arrives on a ready text layer and cancels the pending computation
C13_Witness ==
  /\ highlightText = QueryRawShort
  /\ textLayerReady
  /\ dom.textLayer
  /\ cancelled # {}
  /\ highlights = <<>>

----------------------------------------------------------------------------
(* C14: once the computation scheduled for the current query has run, the list on display is
   either empty or the list that computation produced from its own match; on no exit path does a
   list computed for an earlier query remain. *)
C14_ListReflectsLatestQuery ==
  (lastRun.ran /\ lastRun.timer.query = highlightText /\ highlights # <<>>) =>
    /\ lastRun.exit = "done"
    /\ Len(highlights) <= Len(lastRun.rects)

----------------------------------------------------------------------------
(* C15: when the query is not a substring of the page text, the fallback works with the first and
   the last min(30, floor(L/2)) characters of the normalized query, and only when that length
   exceeds 5: a query of normalized length 5..11 is not matched; a matched span begins with the
   head and ends with the tail of exactly that length, never more than 30; and the span is found
   whenever the first head of that length has a tail of that length after it within distance. *)
RunTailsAfterHead ==
  {t \in Occurrences(PageText, RunTail) : t >= Least(Occurrences(PageText, RunHead)) + RunAnchorLen}

C15_AnchorLength ==
  (Matched /\ Occurrences(PageText, RunQuery) = {}) =>
    /\ Len(RunQuery) \in 5..11 => (lastRun.kind = "none" /\ lastRun.exit = "noMatch")
    /\ lastRun.kind = "anchor" =>
         /\ RunAnchorLen > 5 /\ RunAnchorLen <= 30
         /\ SubSeq(PageText, lastRun.startIndex + 1, lastRun.startIndex + RunAnchorLen) = RunHead
         /\ SubSeq(PageText, lastRun.endIndex - RunAnchorLen + 2, lastRun.endIndex + 1) = RunTail
    /\ (/\ RunAnchorLen > 5
        /\ Occurrences(PageText, RunHead) # {}
        /\ RunTailsAfterHead # {}
        /\ 2 * (Least(RunTailsAfterHead) - Least(Occurrences(PageText, RunHead))) < 3 * Len(RunQuery))
       => /\ lastRun.kind = "anchor"
          /\ lastRun.startIndex = Least(Occurrences(PageText, RunHead))
          /\ lastRun.endIndex = Least(RunTailsAfterHead) + RunAnchorLen - 1

\* a query of 62 normalized characters matched by its 30-character anchors
C15_Witness ==
  /\ Matched
  /\ Len(RunQuery) >= 62
  /\ RunAnchorLen = 30
  /\ lastRun.kind = "anchor"
  /\ lastRun.endIndex - lastRun.startIndex + 1 > Len(RunQuery)

----------------------------------------------------------------------------
(* C16: in a span accepted by the anchor fallback the head is the first occurrence of the head
   anchor, the tail is the first occurrence of the tail anchor that starts at or after
   headIndex + anchorLength, so the tail neither overlaps nor precedes the head and the span is
   at least 2 * anchorLength long. *)
RunTailIndex == lastRun.endIndex - RunAnchorLen + 1

C16_TailAfterHead ==
  (Matched /\ lastRun.kind = "anchor") =>
    /\ lastRun.startIndex = Least(Occurrences(PageText, RunHead))
    /\ RunTailIndex \in Occurrences(PageText, RunTail)
    /\ RunTailIndex >= lastRun.startIndex + RunAnchorLen
    /\ \A u \in Occurrences(PageText, RunTail) :
         u >= lastRun.startIndex + RunAnchorLen => RunTailIndex <= u
    /\ lastRun.endIndex - lastRun.startIndex + 1 >= 2 * RunAnchorLen

\* an accepted span on a page where the tail anchor also occurs before the head
C16_Witness ==
  /\ Matched
  /\ lastRun.kind = "anchor"
  /\ \E u \in Occurrences(PageText, RunTail) : u < lastRun.startIndex

----------------------------------------------------------------------------
(* C17: the anchor fallback is consulted only when the query does not occur in the page text;
   when the query occurs verbatim the span is the exact match, of length exactly queryLength and
   spelling the query, even if its head and tail anchors also occur elsewhere on the page. *)
C17_ExactBeforeAnchor ==
  Matched =>
    /\ Occurrences(PageText, RunQuery) # {} =>
         /\ lastRun.kind = "exact"
         /\ lastRun.endIndex - lastRun.startIndex + 1 = Len(RunQuery)
         /\ SubSeq(PageText, lastRun.startIndex + 1, lastRun.endIndex + 1) = RunQuery
    /\ lastRun.kind = "anchor" => Occurrences(PageText, RunQuery) = {}
    /\ lastRun.kind = "exact" => Occurrences(PageText, RunQuery) # {}

\* an exact match on a page where an earlier head anchor has the tail anchor within distance
C17_Witness ==
  /\ Matched
  /\ lastRun.kind = "exact"
  /\ RunAnchorLen > 5
  /\ Least(Occurrences(PageText, RunHead)) < lastRun.startIndex
  /\ \E t \in RunTailsAfterHead :
       2 * (t - Least(Occurrences(PageText, RunHead))) < 3 * Len(RunQuery)

----------------------------------------------------------------------------
(* C18: the list a computation sets is the range's client rectangles, in their order, without
   those narrower or lower than 1 pixel and without the page-sized ones (more than 90% of the
   page box in both dimensions), each with left and top reduced by the page box's left and top
   and its width and height unchanged. *)
PageSized(r) ==
  10 * r.width > 9 * Layout.pageW * dom.scale /\ 10 * r.height > 9 * Layout.pageH * dom.scale

Survives(r) == r.width >= 10 /\ r.height >= 10 /\ ~PageSized(r)

RECURSIVE Surviving(_, _)
Surviving(rects, i) ==
  IF i > Len(rects) THEN <<>>
  ELSE (IF Survives(rects[i])
        THEN << [left |-> rects[i].left - Layout.pageLeft, top |-> rects[i].top - Layout.pageTop,
                 width |-> rects[i].width, height |-> rects[i].height] >>
        ELSE <<>>) \o Surviving(rects, i + 1)

C18_ProjectionIsFilteredSubsequence ==
  (lastRun.ran /\ lastRun.exit = "done") => highlights = Surviving(lastRun.rects, 1)

\* a range over four text nodes: one box too narrow, one page-sized, two kept
C18_Witness ==
  /\ lastRun.ran /\ lastRun.exit = "done"
  /\ Len(lastRun.rects) >= 4
  /\ Len(highlights) >= 2
  /\ \E i \in 1..Len(lastRun.rects) : lastRun.rects[i].width < 10
  /\ \E i \in 1..Len(lastRun.rects) : PageSized(lastRun.rects[i])
  /\ highlights[1].left # lastRun.rects[1].left

----------------------------------------------------------------------------
(* C19: a computation issues the scroll exactly when it sets a list with at least one rectangle;
   the element scrolled to is the parent of the text node that holds the first character of the
   matched span; a computation that finds no match, keeps no rectangle or ends in the catch block
   issues none. A computation reaches the scroll statement at most once. *)
KeptBefore(n) == Len(NormalizeQuery(RawText(SubSeq(dom.textNodes, 1, n - 1), 1)))

\* the text node that holds character k of the normalized page text
NodeOfChar(k) ==
  CHOOSE n \in 1..Len(dom.textNodes) : KeptBefore(n) <= k /\ k < KeptBefore(n + 1)

C19_ScrollOnlyOnResult ==
  lastRun.ran =>
    /\ lastRun.scrolledTo # 0 <=> (lastRun.exit = "done" /\ highlights # <<>>)
    /\ lastRun.scrolledTo # 0 => lastRun.scrolledTo = NodeOfChar(lastRun.startIndex)
    /\ lastRun.exit \in {"noMatch", "caught"} => lastRun.scrolledTo = 0

\* the scroll goes to a text node that is not the first of the page
C19_Witness ==
  /\ lastRun.ran
  /\ lastRun.exit = "done"
  /\ lastRun.scrolledTo > 1
  /\ highlights # <<>>

----------------------------------------------------------------------------
(* C20: normalization keeps the Latin letters a-z and A-Z, the digits 0-9 and the ideographs
   U+4E00..U+9FA5 (the classes as the pattern of isAlphaNumeric spells them), lower-cased and in
   their order, and drops every other character; the page text and the query are normalized by
   the same function; normalizing a normalized text changes nothing. *)
RECURSIVE KeepLower(_, _)
KeepLower(str, i) ==
  IF i > Len(str) THEN <<>>
  ELSE (IF Kept(str[i]) THEN <<LowerCase(str[i])>> ELSE <<>>) \o KeepLower(str, i + 1)

C20_Normalization ==
  IndexBuilt =>
    /\ lastRun.normalizedPdfText = KeepLower(RawText(dom.textNodes, 1), 1)
    /\ lastRun.normalizedQuery = KeepLower(lastRun.timer.query, 1)
    /\ NormalizeQuery(lastRun.normalizedQuery) = lastRun.normalizedQuery
    /\ NormalizeQuery(lastRun.normalizedPdfText) = lastRun.normalizedPdfText
    /\ BuildMap(<<[text |-> lastRun.normalizedPdfText]>>).text = lastRun.normalizedPdfText
    /\ BuildMap(<<[text |-> lastRun.timer.query]>>).text = lastRun.normalizedQuery

\* a page and a query with upper-case letters, ideographs and characters just outside each
\* range, reduced to the same eight characters
C20_Witness ==
  /\ IndexBuilt
  /\ \E c \in {64, 91, 96, 123, 47, 58, 19967, 40870, 233} :
       \E i \in 1..Len(lastRun.timer.query) : lastRun.timer.query[i] = c
  /\ Len(RawText(dom.textNodes, 1)) = 17
  /\ lastRun.normalizedPdfText = <<97, 122, 97, 122, 48, 57, 19968, 40869>>
  /\ lastRun.normalizedQuery = lastRun.normalizedPdfText
  /\ lastRun.kind = "exact"

----------------------------------------------------------------------------
(* The AI service: src/services/geminiService.ts on the Gemini SDK ("sdk"), and the two versions
   of src/unnamed/part_003 on fetch('/api/proxy'): the one that summarises the extracted text
   ("proxyText", lines 1-296) and the one that sends the file ("proxyFile", lines 298-578).

   A text is known by its payload (nothing, a JSON document, anything else) and by whether it is
   wrapped in a Markdown code fence. *)

Services == {"sdk", "proxyText", "proxyFile"}

Operations == {"generatePaperSummary", "translatePageContent", "chatWithPaper",
               "translateSelection", "analyzeCitation", "explainEquation"}

Texts == [fenced : BOOLEAN, payload : {"empty", "json", "garbage"}]

\* what ai.models.generateContent can do: reject, or resolve with response.text
SdkReplies == {[kind |-> "rejects"]} \cup {[kind |-> "text", text |-> t] : t \in Texts}

\* what fetch('/api/proxy') can do: reject, resolve with a status that is not OK (and a body
\* that is JSON or not), or resolve OK with a body that is not JSON, that has no choices, or
\* whose first choice carries a message content
FetchReplies ==
  {[kind |-> "rejects"]}
    \cup {[kind |-> "response", ok |-> FALSE, body |-> b] : b \in {"json", "notJson"}}
    \cup {[kind |-> "response", ok |-> TRUE, body |-> b] : b \in {"notJson", "noChoices"}}
    \cup {[kind |-> "response", ok |-> TRUE, body |-> "choices", text |-> t] : t \in Texts}

Replies(service) == IF service = "sdk" THEN SdkReplies ELSE FetchReplies

Returns(v) == [kind |-> "returns", value |-> v]
Throws == [kind |-> "throws"]

\* !text
Falsy(text) == ~text.fenced /\ text.payload = "empty"

\* text.replace(/```json/g, '').replace(/```/g, '').trim()
StripFences(text) == [text EXCEPT !.fenced = FALSE]

\* JSON.parse(text)
JSONparse(text) ==
  IF ~text.fenced /\ text.payload = "json" THEN Returns("parsed") ELSE Throws

\* cleanJson of part_003: "{}" for no text
cleanJson(text) ==
  IF Falsy(text) THEN [fenced |-> FALSE, payload |-> "json"] ELSE StripFences(text)

\* callProxyApi of part_003: the message content, or a throw
callProxyApi(reply) ==
  IF reply.kind = "rejects" THEN Throws
  ELSE IF ~reply.ok THEN Throws
  ELSE IF reply.body # "choices" THEN Throws
  ELSE Returns(reply.text)

\* try { ... return JSON.parse(...) } catch (error) { console.error(...); throw error; }
\* of generatePaperSummary and translatePageContent of geminiService.ts
SdkJsonOrRethrow(reply) ==
  IF reply.kind = "rejects" THEN Throws
  ELSE IF Falsy(reply.text) THEN Throws
  ELSE JSONparse(StripFences(reply.text))

\* return response.text || "..."; catch: return "..." of chatWithPaper, translateSelection and
\* explainEquation of geminiService.ts
SdkTextOrSentinel(reply) ==
  IF reply.kind = "rejects" THEN Returns("sentinel")
  ELSE IF Falsy(reply.text) THEN Returns("sentinel")
  ELSE Returns("text")

\* analyzeCitation of geminiService.ts
SdkCitation(reply) ==
  IF reply.kind = "rejects" THEN Returns("sentinel")
  ELSE IF Falsy(StripFences(reply.text)) THEN Returns("sentinel")
  ELSE IF JSONparse(StripFences(reply.text)) = Throws THEN Returns("sentinel")
  ELSE JSONparse(StripFences(reply.text))

\* try { JSON.parse(cleanJson(await callProxyApi(messages, true))) } catch { return fallback }
\* of generatePaperSummary, translatePageContent and analyzeCitation of part_003
ProxyJsonOrSentinel(reply) ==
  IF callProxyApi(reply) = Throws THEN Returns("sentinel")
  ELSE IF JSONparse(cleanJson(callProxyApi(reply).value)) = Throws THEN Returns("sentinel")
  ELSE JSONparse(cleanJson(callProxyApi(reply).value))

\* try { return await callProxyApi(messages) } catch { return "..." } of chatWithPaper,
\* translateSelection and explainEquation of part_003
ProxyTextOrSentinel(reply) ==
  IF callProxyApi(reply) = Throws THEN Returns("sentinel") ELSE Returns("text")

JsonOperations == {"generatePaperSummary", "translatePageContent", "analyzeCitation"}

\* what the promise of the operation settles to, given what the upstream did
Settle(service, operation, reply) ==
  IF service = "sdk"
  THEN IF operation \in {"generatePaperSummary", "translatePageContent"} THEN SdkJsonOrRethrow(reply)
       ELSE IF operation = "analyzeCitation" THEN SdkCitation(reply)
       ELSE SdkTextOrSentinel(reply)
  ELSE IF operation \in JsonOperations THEN ProxyJsonOrSentinel(reply)
       ELSE ProxyTextOrSentinel(reply)

\* if (!fullPaperText || fullPaperText.length < 100) throw ..., before the request is made
RejectsInput(service, operation, input) ==
  service = "proxyText" /\ operation = "generatePaperSummary" /\ input = "shortText"

Inputs == {"content", "shortText"}

\* the caller invokes an operation
Call(service, operation, input) ==
  /\ svc.phase \in {"idle", "settled"}
  /\ svc' = IF RejectsInput(service, operation, input)
            THEN [phase |-> "settled", service |-> service, operation |-> operation,
                  input |-> input, requested |-> FALSE, result |-> Throws]
            ELSE [phase |-> "awaiting", service |-> service, operation |-> operation,
                  input |-> input]
  /\ UNCHANGED <<viewer, proxy, store, app, cite>>

\* the upstream request of the pending call settles, and with it the operation
UpstreamSettles ==
  /\ svc.phase = "awaiting"
  /\ \E reply \in Replies(svc.service) :
       svc' = [phase |-> "settled", service |-> svc.service, operation |-> svc.operation,
               input |-> svc.input, requested |-> TRUE, reply |-> reply,
               result |-> Settle(svc.service, svc.operation, reply)]
  /\ UNCHANGED <<viewer, proxy, store, app, cite>>

InitService == ViewerInit /\ OutsideIdle

NextService ==
  \/ \E service \in Services, operation \in Operations, input \in Inputs :
       Call(service, operation, input)
  \/ UpstreamSettles

SpecService == InitService /\ [][NextService]_vars

\* the upstream request of the settled call failed, or returned content that is not the JSON
\* the operation parses
UpstreamFailed ==
  /\ svc.phase = "settled" /\ svc.requested
  /\ \/ svc.reply.kind = "rejects"
     \/ svc.reply.kind = "response" /\ (~svc.reply.ok \/ svc.reply.body # "choices")
     \/ /\ svc.operation \in JsonOperations
        /\ svc.reply.kind = "text" \/ (svc.reply.kind = "response" /\ svc.reply.ok /\ svc.reply.body = "choices")
        /\ svc.reply.text.payload = "garbage"

(* C21: an operation of the AI service whose upstream request failed, or returned content that
   cannot be parsed, settles by returning its fallback content; it does not throw. *)
C21_FailureYieldsSentinel ==
  UpstreamFailed => svc.result = Returns("sentinel")

----------------------------------------------------------------------------
(* The proxy function: src/api/proxy.js *)

Methods == {"OPTIONS", "POST", "GET"}

\* req.headers.authorization; "undefined" when the client sent none
Authorizations == {"undefined", "Bearer k1", "Bearer k2"}

Requests == [method : Methods, authorization : Authorizations, body : {"chat", "vision"}]

\* the upstream's status codes and bodies; response.ok is a status of 200..299
UpstreamStatuses == {200, 201, 401, 500}
UpstreamBodies == {"completion", "errorObject", "notJson"}

Ok(status) == status >= 200 /\ status <= 299

\* res.setHeader(...) of lines 6-9
CorsHeaders ==
  [AccessControlAllowCredentials |-> "true",
   AccessControlAllowOrigin |-> "*",
   AccessControlAllowMethods |-> "GET,OPTIONS,PATCH,DELETE,POST,PUT"]

\* fetch(TARGET_URL, {method: 'POST', headers: {..., "Authorization": req.headers.authorization}, body})
UpstreamCall(req) ==
  [url |-> "https://fanzisima.xyz/v1/chat/completions", method |-> "POST",
   authorization |-> req.authorization, body |-> req.body]

\* a mutant of Relay: the upstream's status is not passed on
RelayAlwaysOk(status, data) == [status |-> 200, body |-> data]

\* if (!response.ok) return res.status(response.status).json(data); return res.status(200).json(data)
Relay(status, data) ==
  IF ~Ok(status) THEN [status |-> status, body |-> data] ELSE [status |-> 200, body |-> data]

\* catch (error): res.status(500).json({error: ..., details: error.message})
ProxyError == [status |-> 500, body |-> "proxyError"]

\* the handler is invoked: the CORS headers are set, a preflight request is answered at once,
\* any other request is forwarded
Receive(req) ==
  /\ proxy.phase \in {"idle", "responded"}
  /\ proxy' = IF req.method = "OPTIONS"
              THEN [phase |-> "responded", req |-> req, headers |-> CorsHeaders, upstream |-> <<>>,
                    fetched |-> [kind |-> "none"], res |-> [status |-> 200, body |-> "none"]]
              ELSE [phase |-> "fetching", req |-> req, headers |-> CorsHeaders,
                    upstream |-> <<UpstreamCall(req)>>]
  /\ UNCHANGED <<viewer, svc, store, app, cite>>

\* await fetch(...) rejects
FetchRejects ==
  /\ proxy.phase = "fetching"
  /\ proxy' = [phase |-> "responded", req |-> proxy.req, headers |-> proxy.headers,
               upstream |-> proxy.upstream, fetched |-> [kind |-> "rejects"], res |-> ProxyError]
  /\ UNCHANGED <<viewer, svc, store, app, cite>>

\* await fetch(...) resolves with the upstream's response
FetchResolves(status, body) ==
  /\ proxy.phase = "fetching"
  /\ proxy' = [phase |-> "parsing", req |-> proxy.req, headers |-> proxy.headers,
               upstream |-> proxy.upstream,
               fetched |-> [kind |-> "response", status |-> status, body |-> body]]
  /\ UNCHANGED <<viewer, svc, store, app, cite>>

\* await response.json() settles and the handler answers
JsonSettles ==
  /\ proxy.phase = "parsing"
  /\ proxy' = [phase |-> "responded", req |-> proxy.req, headers |-> proxy.headers,
               upstream |-> proxy.upstream, fetched |-> proxy.fetched,
               res |-> IF proxy.fetched.body = "notJson" THEN ProxyError
                       ELSE Relay(proxy.fetched.status, proxy.fetched.body)]
  /\ UNCHANGED <<viewer, svc, store, app, cite>>

InitProxy == ViewerInit /\ OutsideIdle

NextProxy ==
  \/ \E req \in Requests : Receive(req)
  \/ FetchRejects
  \/ \E status \in UpstreamStatuses, body \in UpstreamBodies : FetchResolves(status, body)
  \/ JsonSettles

SpecProxy == InitProxy /\ [][NextProxy]_vars

(* C22: a request with method OPTIONS is answered with status 200 and no upstream call; any other
   request causes exactly one upstream POST carrying the client's Authorization header, and is
   answered with 500 when the upstream call or the parsing of its body throws, with the
   upstream's status and body when the upstream is not OK, and with 200 and the upstream's body
   when it is OK; every response carries Access-Control-Allow-Origin "*". *)
C22_ProxyProtocol ==
  /\ proxy.phase \in {"fetching", "parsing"} =>
       /\ proxy.req.method # "OPTIONS"
       /\ Len(proxy.upstream) = 1
  /\ proxy.phase = "responded" =>
       /\ proxy.headers.AccessControlAllowOrigin = "*"
       /\ IF proxy.req.method = "OPTIONS"
          THEN proxy.res.status = 200 /\ proxy.upstream = <<>>
          ELSE /\ Len(proxy.upstream) = 1
               /\ proxy.upstream[1].method = "POST"
               /\ proxy.upstream[1].authorization = proxy.req.authorization
               /\ IF proxy.fetched.kind = "rejects" THEN proxy.res.status = 500
                  ELSE IF proxy.fetched.body = "notJson" THEN proxy.res.status = 500
                  ELSE IF proxy.fetched.status \in 200..299
                  THEN proxy.res.status = 200 /\ proxy.res.body = proxy.fetched.body
                  ELSE proxy.res.status = proxy.fetched.status /\ proxy.res.body = proxy.fetched.body

\* a GET request with a key, answered with the upstream's 401 and its error object
C22_Witness ==
  /\ proxy.phase = "responded"
  /\ proxy.req.method = "GET"
  /\ proxy.req.authorization = "Bearer k2"
  /\ proxy.fetched.kind = "response"
  /\ proxy.res = [status |-> 401, body |-> "errorObject"]

----------------------------------------------------------------------------
(* Local persistence: the database module at the end of src/unnamed/part_002.
   Strings are sequences of code units, so that the keys are computed. An object store is the
   set of its records; put replaces the record that has the same key path value. *)

\* the decimal digits of a natural number, as the template literal writes them
RECURSIVE NumberToString(_)
NumberToString(n) ==
  IF n < 10 THEN <<48 + n>> ELSE NumberToString(n \div 10) \o <<48 + (n % 10)>>

Underscore == <<95>>

\* `${file.name}_${file.size}_${file.lastModified}`
generateFingerprint(file) ==
  file.name \o Underscore \o NumberToString(file.size) \o Underscore \o NumberToString(file.lastModified)

\* a mutant of TranslationId: the key is written without the separator
TranslationIdUnseparated(fingerprint, pageNum) == fingerprint \o NumberToString(pageNum)

\* const id = `${fingerprint}_${pageNumber}`
TranslationId(fingerprint, pageNum) == fingerprint \o Underscore \o NumberToString(pageNum)

\* the files "a" of size 1, last modified at 1 and at 11
StoredFiles ==
  {[name |-> <<97>>, size |-> 1, lastModified |-> 1],
   [name |-> <<97>>, size |-> 1, lastModified |-> 11]}

Fingerprints == {generateFingerprint(f) : f \in StoredFiles}
StoredPages == {1, 11}
TranslationData == {"d1", "d2"}
Summaries == {"s1", "s2"}

\* the value db.get resolves to when no record has the key
Undefined == [undefined |-> TRUE]

\* db.put(storeName, value) on a store whose key path is keyPath
DbPut(records, keyPath, value) ==
  {r \in records : r[keyPath] # value[keyPath]} \cup {value}

\* db.get(storeName, key): the record, or undefined
DbGet(records, keyPath, key) ==
  IF \E r \in records : r[keyPath] = key
  THEN CHOOSE r \in records : r[keyPath] = key
  ELSE Undefined

\* getPageTranslation: record ? record.data : null
PageTranslationOf(translations, fingerprint, pageNum) ==
  LET record == DbGet(translations, "id", TranslationId(fingerprint, pageNum))
  IN IF record = Undefined THEN "null" ELSE record.data

NothingSaved == [pair \in Fingerprints \X StoredPages |-> "null"]
NoSummarySaved == [f \in Fingerprints |-> Undefined]

\* getDB(): the database is opened with its two empty object stores
OpenDb ==
  /\ store.phase = "idle"
  /\ store' = [phase |-> "open", files |-> {}, translations |-> {},
               savedData |-> NothingSaved, savedSummary |-> NoSummarySaved,
               last |-> [op |-> "openDB"]]
  /\ UNCHANGED <<viewer, svc, proxy, app, cite>>

saveSummary(fingerprint, name, summary) ==
  /\ store.phase = "open"
  /\ store' = [store EXCEPT
                 !.files = DbPut(@, "fingerprint",
                                 [fingerprint |-> fingerprint, name |-> name, summary |-> summary]),
                 !.savedSummary[fingerprint] =
                     [fingerprint |-> fingerprint, name |-> name, summary |-> summary],
                 !.last = [op |-> "saveSummary", fingerprint |-> fingerprint]]
  /\ UNCHANGED <<viewer, svc, proxy, app, cite>>

getSummary(fingerprint) ==
  /\ store.phase = "open"
  /\ store' = [store EXCEPT
                 !.last = [op |-> "getSummary", fingerprint |-> fingerprint,
                           result |-> DbGet(store.files, "fingerprint", fingerprint)]]
  /\ UNCHANGED <<viewer, svc, proxy, app, cite>>

savePageTranslation(fingerprint, pageNum, data) ==
  /\ store.phase = "open"
  /\ store' = [store EXCEPT
                 !.translations = DbPut(@, "id",
                                        [id |-> TranslationId(fingerprint, pageNum),
                                         fingerprint |-> fingerprint, pageNumber |-> pageNum,
                                         data |-> data]),
                 !.savedData[<<fingerprint, pageNum>>] = data,
                 !.last = [op |-> "savePageTranslation", fingerprint |-> fingerprint,
                           pageNumber |-> pageNum]]
  /\ UNCHANGED <<viewer, svc, proxy, app, cite>>

getPageTranslation(fingerprint, pageNum) ==
  /\ store.phase = "open"
  /\ store' = [store EXCEPT
                 !.last = [op |-> "getPageTranslation", fingerprint |-> fingerprint,
                           pageNumber |-> pageNum,
                           result |-> PageTranslationOf(store.translations, fingerprint, pageNum)]]
  /\ UNCHANGED <<viewer, svc, proxy, app, cite>>

InitStore == ViewerInit /\ OutsideIdle

NextStore ==
  \/ OpenDb
  \/ \E f \in Fingerprints, summary \in Summaries : saveSummary(f, <<97>>, summary)
  \/ \E f \in Fingerprints : getSummary(f)
  \/ \E f \in Fingerprints, pageNum \in StoredPages, data \in TranslationData :
       savePageTranslation(f, pageNum, data)
  \/ \E f \in Fingerprints, pageNum \in StoredPages : getPageTranslation(f, pageNum)

SpecStore == InitStore /\ [][NextStore]_vars

(* C23: getPageTranslation(f, p) returns the data of the latest savePageTranslation(f, p, d), and
   null when there was none; getSummary(f) returns the record of the latest saveSummary(f, ...);
   what was saved for one (fingerprint, page) pair is not changed by a save for another pair, the
   keys of distinct pairs being distinct. *)
C23_PersistenceRoundTrip ==
  store.phase = "open" =>
    /\ store.last.op = "getPageTranslation" =>
         store.last.result = store.savedData[<<store.last.fingerprint, store.last.pageNumber>>]
    /\ store.last.op = "getSummary" =>
         store.last.result = store.savedSummary[store.last.fingerprint]
    /\ \A pair \in Fingerprints \X StoredPages :
         PageTranslationOf(store.translations, pair[1], pair[2]) = store.savedData[pair]
    /\ \A pair1, pair2 \in Fingerprints \X StoredPages :
         pair1 # pair2 => TranslationId(pair1[1], pair1[2]) # TranslationId(pair2[1], pair2[2])

\* a read of a pair saved twice, while the pair whose fingerprint and page concatenate to the
\* same digits holds other data and a third pair was never saved
C23_Witness ==
  /\ store.phase = "open"
  /\ store.last.op = "getPageTranslation"
  /\ store.last.fingerprint = <<97, 95, 49, 95, 49>>
  /\ store.last.pageNumber = 11
  /\ store.last.result = "d2"
  /\ store.savedData[<<(<<97, 95, 49, 95, 49, 49>>), 1>>] = "d1"
  /\ store.savedData[<<(<<97, 95, 49, 95, 49, 49>>), 11>>] = "null"
  /\ Cardinality(store.translations) = 2

----------------------------------------------------------------------------
(* The zoom buttons of the control bar *)

(* C24: the scale stays within 0.6 .. 2.5 (in tenths: MinScale .. MaxScale); zooming out at the
   lower limit and zooming in at the upper limit give the scale it already has. *)
C24_ScaleWithinLimits ==
  /\ scale \in MinScale..MaxScale
  /\ dom.scale \in MinScale..MaxScale
  /\ scale = MinScale => ClampScale(scale, -ScaleStep) = scale
  /\ scale = MaxScale => ClampScale(scale, ScaleStep) = scale

\* the page has been drawn at the upper limit
C24_Witness == scale = MaxScale /\ dom.scale = MaxScale

----------------------------------------------------------------------------
(* The reading session of App (src/unnamed/part_002): page navigation, the debounced page, the
   capture timers of the two PDFViewer instances and the page translations.

   A callback is the record of the state values its render closed over. The counter
   triggerCapture is left out: the first run of the trigger effect makes it positive and it is
   read only as (triggerCapture || 0) > 0 and as a dependency, so the model keeps the restart of
   the viewer's 500 ms timer. The capture timers run for 300 ms and 500 ms and the debounce timer
   for 600 ms: a capture timer that exists when the debounce timer is started fires before it. *)

\* the pages the session can show: ArrowRight counts on past the document's last page
PageCap == NumPages + 1
MaxInFlight == 2
MaxTimers == 2

NoPage == 0
MainViewer == "main"
PrefetchViewer == "prefetch"

\* the state a processCanvas of this render closes over
Closure(a) ==
  [debouncedPage |-> a.debouncedPage,
   pageTranslations |-> a.pageTranslations,
   prefetchPage |-> a.prefetchPage]

\* the page div of a page of the document holds a canvas
HasCanvas(pageNum) == pageNum \in 1..NumPages

\* setTimeout(captureCanvas, delay) in a render of the viewer
CaptureTimer(a, which, delay) ==
  [viewer |-> which,
   delay |-> delay,
   pageNumber |-> IF which = MainViewer THEN a.currentPage ELSE a.prefetchPage,
   onPageRendered |-> IF which = MainViewer THEN a.handleMainPageRendered
                                               ELSE a.handlePrefetchRendered,
   before |-> FALSE]

\* the call of translatePageContent that processCanvas awaits, with what the rest of
\* processCanvas reads of its render; k tells the calls of one kind apart
Request(requests, pageNum, closure) ==
  LET call == [pageNum |-> pageNum,
               debouncedPage |-> closure.debouncedPage,
               prefetchPage |-> closure.prefetchPage]
      alike == {r \in requests : [f \in DOMAIN call |-> r[f]] = call}
  IN [pageNum |-> pageNum,
      debouncedPage |-> closure.debouncedPage,
      prefetchPage |-> closure.prefetchPage,
      k |-> CHOOSE k \in 1..(Cardinality(alike) + 1) :
              /\ k \notin {r.k : r \in alike}
              /\ \A j \in 1..(k - 1) : j \in {r.k : r \in alike}]

\* processCanvas(canvas, pageNum) up to its await, in the render that closure stands for
processCanvas(a, closure, which, pageNum) ==
  IF pageNum \in closure.pageTranslations
  THEN [a EXCEPT !.lastCall = [viewer |-> which, pageNum |-> pageNum,
                               debouncedPage |-> a.debouncedPage,
                               cached |-> pageNum \in a.pageTranslations,
                               issued |-> FALSE]]
  ELSE [a EXCEPT
          !.isTranslatingPage = IF pageNum = closure.debouncedPage THEN TRUE ELSE @,
          !.requests = @ \cup {Request(a.requests, pageNum, closure)},
          !.lastCall = [viewer |-> which, pageNum |-> pageNum,
                        debouncedPage |-> a.debouncedPage,
                        cached |-> pageNum \in a.pageTranslations,
                        issued |-> TRUE]]

\* a mutant of handleMainPageRendered: every capture is processed
handleMainPageRenderedAlways(a, closure, pageNum) == processCanvas(a, closure, MainViewer, pageNum)

\* handleMainPageRendered(canvas, pageNum) of the render that closure stands for
handleMainPageRendered(a, closure, pageNum) ==
  IF pageNum = closure.debouncedPage
  THEN processCanvas(a, closure, MainViewer, pageNum)
  ELSE a

\* handlePrefetchRendered() of the render that closure stands for
handlePrefetchRendered(a, closure) ==
  IF a.prefetchPage # NoPage /\ closure.prefetchPage # NoPage /\ HasCanvas(a.prefetchPage)
  THEN processCanvas(a, closure, PrefetchViewer, closure.prefetchPage)
  ELSE a

\* captureCanvas() of the render that set the timer
captureCanvas(a, t) ==
  LET shown == IF t.viewer = MainViewer THEN a.currentPage ELSE a.prefetchPage
  IN IF t.pageNumber = shown /\ HasCanvas(t.pageNumber)
     THEN IF t.viewer = MainViewer
          THEN handleMainPageRendered(a, t.onPageRendered, t.pageNumber)
          ELSE handlePrefetchRendered(a, t.onPageRendered)
     ELSE a

\* lastCall tells of the step just taken: its call of processCanvas
NoCall == [viewer |-> "none"]

\* What a timer calls when it fires is fixed when it is set, but for the page shown then. A timer
\* that calls processCanvas in no state (its page has no canvas, or its callback is of another
\* page) changes nothing whenever it fires: the model keeps the timers that can call it.
CanCall(a, t) ==
  LET shown == [a EXCEPT !.lastCall = NoCall,
                         !.currentPage = IF t.viewer = MainViewer THEN t.pageNumber ELSE @,
                         !.prefetchPage = IF t.viewer = PrefetchViewer THEN t.pageNumber ELSE @]
  IN captureCanvas(shown, t).lastCall # NoCall

TimerKept(a, t) == IF CanCall(a, t) THEN {t} ELSE {}

\* PDFViewer's effect on [triggerCapture, pageNumber]: cleanup, then a new 500 ms timer
RestartCapture(a, which) ==
  [a EXCEPT !.timers = {t \in @ : ~(t.viewer = which /\ t.delay = 500)}
                        \cup TimerKept(a, CaptureTimer(a, which, 500))]

\* setPrefetchPage(p): the hidden viewer is mounted on p, moved to p or unmounted
SetPrefetchPage(a, p) ==
  IF p = a.prefetchPage THEN a
  ELSE LET b == [a EXCEPT !.prefetchPage = p]
           c == [b EXCEPT !.handlePrefetchRendered = Closure(b)]
       IN IF p = NoPage
          THEN [c EXCEPT !.timers = {t \in @ : t.viewer # PrefetchViewer},
                         !.rendering = @ \ {PrefetchViewer}]
          ELSE RestartCapture([c EXCEPT !.rendering =
                                 IF HasCanvas(p) THEN @ \cup {PrefetchViewer}
                                                 ELSE @ \ {PrefetchViewer}],
                              PrefetchViewer)

\* the effect on [debouncedPage, mode, pageTranslations, isTranslatingPage]
TriggerEffect(a) ==
  IF a.debouncedPage \notin a.pageTranslations /\ ~a.isTranslatingPage
  THEN RestartCapture(a, MainViewer)
  ELSE IF a.debouncedPage \in a.pageTranslations /\ ~a.isTranslatingPage
       THEN IF (a.debouncedPage + 1) \notin a.pageTranslations
            THEN SetPrefetchPage(a, a.debouncedPage + 1)
            ELSE a
       ELSE a

\* the render after a state update: useCallback(..., [debouncedPage]) keeps the callback of the
\* render in which debouncedPage last changed
Render(old, new) ==
  IF new.debouncedPage # old.debouncedPage
  THEN [new EXCEPT !.handleMainPageRendered = Closure(new)]
  ELSE new

\* the render and the effects that follow the state updates of one handler
Commit(old, new) ==
  LET rendered == Render(old, new)
  IN IF \/ rendered.debouncedPage # old.debouncedPage
        \/ rendered.pageTranslations # old.pageTranslations
        \/ rendered.isTranslatingPage # old.isTranslatingPage
     THEN TriggerEffect(rendered)
     ELSE rendered


\* handleFileChange: the file is shown in reading mode on page 1
LoadFile ==
  /\ app.phase = "idle"
  /\ LET mounted == [phase |-> "reading",
                     currentPage |-> 1,
                     debouncedPage |-> 1,
                     debounce |-> 1,
                     pageTranslations |-> {},
                     isTranslatingPage |-> FALSE,
                     prefetchPage |-> NoPage,
                     handleMainPageRendered |->
                       [debouncedPage |-> 1, pageTranslations |-> {}, prefetchPage |-> NoPage],
                     handlePrefetchRendered |->
                       [debouncedPage |-> 1, pageTranslations |-> {}, prefetchPage |-> NoPage],
                     rendering |-> {MainViewer},
                     timers |-> {},
                     requests |-> {},
                     lastCall |-> NoCall]
     IN app' = TriggerEffect(mounted)
  /\ UNCHANGED <<viewer, svc, proxy, store, cite>>

\* setCurrentPage(p): the debounce effect restarts its timer, the main viewer shows page p
SetCurrentPage(p) ==
  /\ app.phase = "reading"
  /\ LET moved == [app EXCEPT !.lastCall = NoCall,
                              !.currentPage = p,
                              !.debounce = p,
                              !.rendering = IF HasCanvas(p) THEN @ \cup {MainViewer}
                                                            ELSE @ \ {MainViewer}]
         restarted == RestartCapture(moved, MainViewer)
     IN app' = [restarted EXCEPT !.timers = {[t EXCEPT !.before = TRUE] : t \in @}]
  /\ UNCHANGED <<viewer, svc, proxy, store, cite>>

\* the control bar's buttons of the main viewer
PrevButton == app.phase = "reading" /\ app.currentPage > 1 /\ SetCurrentPage(app.currentPage - 1)
NextButton ==
  app.phase = "reading" /\ app.currentPage < NumPages /\ SetCurrentPage(app.currentPage + 1)

\* the keyboard shortcuts
ArrowLeft == app.phase = "reading" /\ app.currentPage > 1 /\ SetCurrentPage(app.currentPage - 1)
ArrowRight ==
  app.phase = "reading" /\ app.currentPage < PageCap /\ SetCurrentPage(app.currentPage + 1)

\* the 600 ms timer of the debounce effect fires
DebounceFire ==
  /\ app.phase = "reading"
  /\ app.debounce # NoPage
  /\ \A t \in app.timers : ~t.before
  /\ app' = Commit(app, [app EXCEPT !.lastCall = NoCall,
                                    !.debouncedPage = app.debounce,
                                    !.debounce = NoPage])
  /\ UNCHANGED <<viewer, svc, proxy, store, cite>>

\* a zoom button of the main viewer: the page is drawn again
ZoomRedraw ==
  /\ app.phase = "reading"
  /\ HasCanvas(app.currentPage)
  /\ MainViewer \notin app.rendering
  /\ app' = [app EXCEPT !.lastCall = NoCall, !.rendering = @ \cup {MainViewer}]
  /\ UNCHANGED <<viewer, svc, proxy, store, cite>>

\* onRenderSuccess of a viewer's Page: setTimeout(captureCanvas, 300)
RenderSuccess(v) ==
  /\ app.phase = "reading"
  /\ v \in app.rendering
  /\ Cardinality(app.timers \cup TimerKept(app, CaptureTimer(app, v, 300))) <= MaxTimers
  /\ app' = [app EXCEPT !.lastCall = NoCall,
                        !.rendering = @ \ {v},
                        !.timers = @ \cup TimerKept(app, CaptureTimer(app, v, 300))]
  /\ UNCHANGED <<viewer, svc, proxy, store, cite>>

\* onRetry of the translation panel
Retry ==
  /\ app.phase = "reading"
  /\ app' = RestartCapture([app EXCEPT !.lastCall = NoCall], MainViewer)
  /\ app' # app
  /\ UNCHANGED <<viewer, svc, proxy, store, cite>>

\* a capture timer fires
CaptureFire(t) ==
  /\ app.phase = "reading"
  /\ t \in app.timers
  /\ LET fired == captureCanvas([app EXCEPT !.lastCall = NoCall, !.timers = @ \ {t}], t)
     IN /\ Cardinality(fired.requests) <= MaxInFlight
        /\ app' = Commit(app, fired)
  /\ UNCHANGED <<viewer, svc, proxy, store, cite>>

\* the rest of processCanvas after translatePageContent has resolved (ok) or thrown
TranslationSettles(r, ok) ==
  /\ app.phase = "reading"
  /\ r \in app.requests
  /\ LET removed == [app EXCEPT !.lastCall = NoCall, !.requests = @ \ {r}]
         stored == IF ok \/ r.pageNum = r.debouncedPage
                   THEN [removed EXCEPT !.pageTranslations = @ \cup {r.pageNum}]
                   ELSE removed
         unfetched == IF ok /\ r.pageNum = r.prefetchPage
                      THEN SetPrefetchPage(stored, NoPage)
                      ELSE stored
         settled == IF r.pageNum = r.debouncedPage
                    THEN [unfetched EXCEPT !.isTranslatingPage = FALSE]
                    ELSE unfetched
     IN app' = Commit(app, settled)
  /\ UNCHANGED <<viewer, svc, proxy, store, cite>>

PendingTimers == IF app.phase = "reading" THEN app.timers ELSE {}
InFlight == IF app.phase = "reading" THEN app.requests ELSE {}

InitApp == ViewerInit /\ OutsideIdle

NextApp ==
  \/ LoadFile
  \/ PrevButton
  \/ NextButton
  \/ ArrowLeft
  \/ ArrowRight
  \/ DebounceFire
  \/ ZoomRedraw
  \/ \E v \in {MainViewer, PrefetchViewer} : RenderSuccess(v)
  \/ Retry
  \/ \E t \in PendingTimers : CaptureFire(t)
  \/ \E r \in InFlight, ok \in BOOLEAN : TranslationSettles(r, ok)

\* the capture timers that the running debounce timer cannot overtake
TimersBefore == {t \in PendingTimers : t.before}

\* timers fire and requests settle; a capture timer fires whatever the others do, also where
\* MaxInFlight holds it back for a while
FairApp ==
  /\ WF_vars(DebounceFire)
  /\ SF_vars(\E t \in TimersBefore : CaptureFire(t))
  /\ WF_vars(\E t \in PendingTimers : CaptureFire(t))
  /\ WF_vars(\E r \in InFlight, ok \in BOOLEAN : TranslationSettles(r, ok))

SpecApp == InitApp /\ [][NextApp]_vars /\ FairApp

Reading == app.phase = "reading"
CurrentPageOf(a) == IF a.phase = "reading" THEN a.currentPage ELSE 1

(* C25: in reading mode the current page stays within 1 .. numPages, whatever buttons and arrow
   keys are pressed. *)
C25_PageWithinDocument == Reading => app.currentPage \in 1..NumPages

\* a change of debouncedPage is the firing of the pending timer, which holds the current page
DebounceStep ==
  (Reading /\ app'.phase = "reading" /\ app'.debouncedPage # app.debouncedPage) =>
     /\ app.debounce # NoPage
     /\ app'.debouncedPage = app.currentPage
     /\ app'.currentPage = app.currentPage
     /\ app'.debounce = NoPage

\* a change of currentPage leaves debouncedPage as it is and starts the timer again
PageChangeStep ==
  (Reading /\ app'.phase = "reading" /\ app'.currentPage # app.currentPage) =>
     /\ app'.debouncedPage = app.debouncedPage
     /\ app'.debounce = app'.currentPage

(* C26: debouncedPage changes only when the debounce timer fires, to the page that has been
   current since the timer was started; a page change starts the timer again, so the timer never
   holds a page other than the current one; once the page no longer changes, debouncedPage
   becomes the current page; and processCanvas is called for a capture of the main viewer only
   with the page that is debouncedPage at that moment. *)
C26_Debounce ==
  /\ [][DebounceStep /\ PageChangeStep]_vars
  /\ [](Reading => app.debounce \in {NoPage, app.currentPage})
  /\ [](Reading /\ app.lastCall.viewer = MainViewer =>
           app.lastCall.pageNum = app.debouncedPage)
  /\ (<>[][CurrentPageOf(app') = CurrentPageOf(app)]_vars =>
        <>[](Reading => app.debouncedPage = app.currentPage))

\* page 2 became the debounced page and its capture went to processCanvas while the user was
\* already leaving: back on page 2 after a flip, with the timer running again
C26_Witness ==
  /\ Reading
  /\ app.debouncedPage = 2
  /\ app.lastCall.viewer = MainViewer
  /\ app.lastCall.pageNum = 2
  /\ app.debounce = 2

(* C27: processCanvas issues no request for a page that is in the translation cache when it is
   called. *)
C27_NoRequestForCachedPage ==
  (Reading /\ app.lastCall.viewer # "none" /\ app.lastCall.issued) => ~app.lastCall.cached

(* C28: no two translation requests of the same page are in flight together. *)
C28_OneRequestPerPage ==
  Reading => \A r1, r2 \in app.requests : r1.pageNum = r2.pageNum => r1 = r2

(* C29: isTranslatingPage is true exactly while a request for the debounced page is in flight. *)
C29_FlagTracksRequest ==
  Reading => (app.isTranslatingPage <=> \E r \in app.requests : r.pageNum = app.debouncedPage)

----------------------------------------------------------------------------
(* The citation overlay of App (src/unnamed/part_002): handleCitationClick and the modal. *)

MaxClicks == 3
CitationIds == {"[1]", "[2]"}

NoInfo == [none |-> TRUE]

\* (isAnalyzingCitation || citationInfo) && <the modal>
OverlayShown(c) == c.isAnalyzingCitation \/ c.citationInfo # NoInfo

\* the reading view is shown: nothing analysed yet
ShowReadingView ==
  /\ cite.phase = "idle"
  /\ cite' = [phase |-> "reading",
              isAnalyzingCitation |-> FALSE,
              citationInfo |-> NoInfo,
              analyses |-> {},
              clicks |-> 0,
              closedByUser |-> FALSE]
  /\ UNCHANGED <<viewer, svc, proxy, store, app>>

\* handleCitationClick(id) up to its await; the modal covers the panel while it is shown
CitationClick(id) ==
  /\ cite.phase = "reading"
  /\ cite.clicks < MaxClicks
  /\ ~OverlayShown(cite)
  /\ cite' = [cite EXCEPT !.isAnalyzingCitation = TRUE,
                          !.citationInfo = NoInfo,
                          !.analyses = @ \cup {[click |-> cite.clicks + 1, id |-> id]},
                          !.clicks = @ + 1,
                          !.closedByUser = FALSE]
  /\ UNCHANGED <<viewer, svc, proxy, store, app>>

\* the rest of handleCitationClick once analyzeCitation has resolved
AnalysisResolves(analysis) ==
  /\ cite.phase = "reading"
  /\ analysis \in cite.analyses
  /\ cite' = [cite EXCEPT !.citationInfo = analysis,
                          !.isAnalyzingCitation = FALSE,
                          !.analyses = @ \ {analysis}]
  /\ UNCHANGED <<viewer, svc, proxy, store, app>>

\* the X button of the modal
CloseOverlay ==
  /\ cite.phase = "reading"
  /\ OverlayShown(cite)
  /\ cite' = [cite EXCEPT !.citationInfo = NoInfo,
                          !.isAnalyzingCitation = FALSE,
                          !.closedByUser = TRUE]
  /\ UNCHANGED <<viewer, svc, proxy, store, app>>

AnalysesInFlight == IF cite.phase = "reading" THEN cite.analyses ELSE {}

InitCitation == ViewerInit /\ OutsideIdle

NextCitation ==
  \/ ShowReadingView
  \/ \E id \in CitationIds : CitationClick(id)
  \/ \E analysis \in AnalysesInFlight : AnalysisResolves(analysis)
  \/ CloseOverlay

SpecCitation == InitCitation /\ [][NextCitation]_vars

(* C30: an overlay the user has closed stays closed until the next citation click, and when no
   analysis is in flight any more the overlay shows nothing but the result of the latest click. *)
C30_OverlayFollowsLatestClick ==
  cite.phase = "reading" =>
    /\ cite.closedByUser => ~OverlayShown(cite)
    /\ (cite.analyses = {} /\ cite.citationInfo # NoInfo) =>
          cite.citationInfo.click = cite.clicks

====
